---- MODULE Spec2Model ----
(***************************************************************************)
(* State-machine model of the workflow driver (src/sheerid_verifier.py:    *)
(* SheerIDVerifier._make_request, _upload_to_s3, verify) and of the        *)
(* conversation front-end's session bookkeeping (src/bot.py).              *)
(***************************************************************************)
EXTENDS Integers, Sequences, FiniteSets, TLC

(***************************************************************************)
(* Bounds and program constants                                            *)
(***************************************************************************)
\* bound: total number of transient faults (timeout, network error, 429)
\* the environment injects into one run of verify
MaxFaults == 3

\* default value of the `retries` parameter of _make_request
Retries == 3

\* SheerIDVerifier.RETRY_DELAY (1.0 seconds)
RETRY_DELAY == 1

NoVal == "<absent>"

\* str.lower() on the strings that occur
Lower(str) ==
    CASE str = "Stanford" -> "stanford"
      [] str = "Mary" -> "mary"
      [] str = "James" -> "james"
      [] str = "Smith" -> "smith"
      [] OTHER -> str

\* str.title() on the strings that occur
Title(str) == IF str = "mary" THEN "Mary" ELSE str

\* the verifier's own verification_id (two distinct ids)
VerificationIds == {"vidA", "vidB"}

\* endpoints of the remote verification API, as passed to _make_request
EP1 == "step/collectStudentPersonalInfo"
EP2 == "step/sso"
EP3 == "step/docUpload"
EP4 == "step/completeDocUpload"
PUT == "PUT uploadUrl"

(***************************************************************************)
(* Remote responses                                                        *)
(***************************************************************************)
StatusStr(s) ==
    CASE s = 200 -> "200" [] s = 201 -> "201" [] s = 400 -> "400"
      [] s = 429 -> "429" [] s = 199 -> "199" [] s = 299 -> "299"
      [] s = 300 -> "300" [] OTHER -> "other"

\* exceptions httpx raises for an attempt
TransientExc == {"timeout", "neterr"}

\* a decoded JSON body; isDict = FALSE is a body that is valid JSON but not
\* an object (data.get raises AttributeError)
Body(isDict, cs, eids, err, docs, redir) ==
    [isDict |-> isDict, currentStep |-> cs, errorIds |-> eids, error |-> err,
     documents |-> docs, redirectUrl |-> redir]

NotDict == Body(FALSE, NoVal, NoVal, NoVal, NoVal, NoVal)

Resp(status, body) == [status |-> status, body |-> body]

\* a body that reports an error: errorIds and/or error may be present
ErrorBodies(steps) ==
    { Body(TRUE, cs, e, x, NoVal, NoVal) :
        cs \in steps, e \in {NoVal, "invalidEmail"}, x \in {NoVal, "errtext"} }

\* Responses to POST step/collectStudentPersonalInfo.  A response reports the
\* current stage and, on error, an error-identifier list; the stage marker and
\* the status vary independently.
Step1Responses ==
    { Resp(200, Body(TRUE, cs, NoVal, NoVal, NoVal, NoVal)) : cs \in {"sso", "docUpload"} }
      \cup { Resp(200, b) : b \in ErrorBodies({"error"}) }
      \cup { Resp(st, b) : st \in {201, 400}, b \in ErrorBodies({"error", "sso"}) }
      \cup { Resp(st, NotDict) : st \in {200, 400} }

SsoResponses ==
    { Resp(st, Body(TRUE, "docUpload", NoVal, NoVal, NoVal, NoVal)) : st \in {200, 400} }
      \cup { Resp(200, NotDict) }

\* documents: absent/empty, a document without uploadUrl, a document with one
DocResponses ==
    { Resp(200, Body(TRUE, "docUpload", NoVal, NoVal, d, NoVal)) :
        d \in {NoVal, "nourl", "url"} }
      \cup { Resp(st, Body(TRUE, "error", "docError", NoVal, NoVal, NoVal)) :
               st \in {201, 400} }
      \cup { Resp(200, NotDict) }

FinalResponses ==
    { Resp(200, Body(TRUE, "pending", NoVal, NoVal, NoVal, r)) :
        r \in {NoVal, "redirect"} }
      \cup { Resp(st, Body(TRUE, "error", "finalError", NoVal, NoVal, NoVal)) :
               st \in {201, 400} }
      \cup { Resp(200, NotDict) }

ResponsesOf(ep) ==
    CASE ep = EP1 -> Step1Responses
      [] ep = EP2 -> SsoResponses
      [] ep = EP3 -> DocResponses
      [] OTHER    -> FinalResponses

\* dict.get(key, default) on a decoded body
Get(body, key, default) == IF body[key] = NoVal THEN default ELSE body[key]

RECURSIVE Pow2(_)
Pow2(k) == IF k = 0 THEN 1 ELSE 2 * Pow2(k - 1)

(***************************************************************************)
(* State                                                                   *)
(***************************************************************************)
VARIABLES
    given,       \* the arguments first_name, last_name, email, birth_date of verify
    identity,    \* the four values after line 235, or NoIdentity
    payload,     \* the identity fields of personal_info, or NoPayload
    doc,         \* the names passed to generate_student_id_card, or NoDoc
    pc,          \* position of verify: entry, an endpoint being called, render, s3, done
    vid,         \* self.verification_id
    school,      \* the school argument: a record with a numeric id ("valid") or without id ("noid")
    attempt,     \* loop variable of _make_request for the call in progress
    faults,      \* transient faults counted against MaxFaults in this run
    http,        \* every HTTP request issued, in order, with its outcome
    sleeps,      \* every time.sleep of _make_request, in order
    trace,       \* stage-level events: call issued / returned / raised
    resp,        \* per endpoint: the (data, status) _make_request returned, or NoResp
    rendered,    \* number of calls of generate_student_id_card
    imgLen,      \* len(img_data) of the rendered buffer (0: none)
    declared,    \* fileSize declared in the docUpload body (0: none)
    putLen,      \* length of the buffer PUT to the upload URL (0: none)
    raised,      \* the exception raised inside verify (class, str(e)), or NoExc
    escaped,     \* TRUE iff an exception left verify
    result       \* the returned VerificationResult, or NoResult

idvars == <<given, identity, payload, doc>>

vvars == <<idvars, pc, vid, school, attempt, faults, http, sleeps, trace, resp,
           rendered, imgLen, declared, putLen, raised, escaped, result>>

\* the state of the conversation front-end
VARIABLES
    user_data,   \* the global dict user_data
    conv,        \* per user: the state the ConversationHandler holds
    jobs,        \* per user and step: number of pending jobs named timeout_<step>_<user>
    sent,        \* per user: the messages the last handler or job sent: the
                 \* timeout notice, the messages of process_verification,
                 \* "invalid" where a handler rejects the user's text,
                 \* "found <n>" for the result list of a search, and
                 \* "reply" for every other prompt and reply
    logs,        \* per user: the verification log records the last handler emitted
    invoked,     \* per user: the last handler called the verifier
    path,        \* per user: the steps whose input the conversation accepted
                 \* since the user's last /start, in order
    left         \* per user: what /start found, while /start is the last
                 \* handler or job that ran for the user

bvars == <<user_data, conv, jobs, sent, logs, invoked, path, left>>

\* the state of a call of one of the helper functions
VARIABLES
    fn,                \* the function being run
    arg,               \* the arguments of its last call
    ret,               \* what its last call returned
    su_k,              \* search_universities: number of types queried so far
    all_universities,  \* search_universities: the list all_universities
    SHEERID_CACHE,     \* config.SHEERID_CACHE
    known,             \* per query (lower-cased) and type: the successful call
                       \* of search_university_in_sheerid since the last
                       \* clear_cache, with the list it returned
    queried,           \* search_universities: per type queried so far, whether
                       \* the query succeeded and the list it delivered
    got,               \* the last call of search_university_in_sheerid: what
                       \* its GET came back with ("none": no GET issued), and
                       \* what `known` held for its query and type when it
                       \* was made
    rpc,               \* generate_student_id_card: position in the function
    photo,             \* generate_student_id_card: the image `photo`
    card               \* generate_student_id_card: the image `card`

rvars == <<rpc, photo, card>>

cvars == <<known, got, queried>>

pvars == <<fn, arg, ret, su_k, all_universities, SHEERID_CACHE, cvars, rvars>>

NoResp == [status |-> 0, body |-> NotDict]
NoExc == [type |-> NoVal, msg |-> <<>>]
JsonEndpoints == {EP1, EP2, EP3, EP4}
\* student_info of a VerificationResult that has none
NoInfo == [name |-> NoVal, email |-> NoVal, birth_date |-> NoVal]

NoResult == [success |-> FALSE, message |-> <<>>, verification_id |-> NoVal,
             redirect_url |-> NoVal, current_step |-> NoVal, student_info |-> NoInfo,
             returned |-> FALSE]

\* the arguments verify is called with: None, the empty string or a value
GivenArgs ==
    [first_name : {NoVal, "mary", "Mary"}, last_name : {NoVal, "Smith"},
     email : {NoVal, "", "m@uni.edu"}, birth_date : {NoVal, "2001-02-03"}]

\* every argument supplied
AllGiven == [first_name |-> "Mary", last_name |-> "Smith", email |-> "m@uni.edu",
             birth_date |-> "2001-02-03"]

NoIdentity == [first_name |-> NoVal, last_name |-> NoVal, email |-> NoVal,
               birth_date |-> NoVal]
NoPayload == [firstName |-> NoVal, lastName |-> NoVal, birthDate |-> NoVal,
              email |-> NoVal]
NoDoc == [first_name |-> NoVal, last_name |-> NoVal]

VInit ==
    /\ given \in GivenArgs
    /\ identity = NoIdentity
    /\ payload = NoPayload
    /\ doc = NoDoc
    /\ pc = "entry"
    /\ vid \in VerificationIds
    /\ school \in {"valid", "noid"}
    /\ attempt = 0
    /\ faults \in {0, MaxFaults}
    /\ http = <<>>
    /\ sleeps = <<>>
    /\ trace = <<>>
    /\ resp = [ep \in JsonEndpoints |-> NoResp]
    /\ rendered = 0
    /\ imgLen = 0
    /\ declared = 0
    /\ putLen = 0
    /\ raised = NoExc
    /\ escaped = FALSE
    /\ result = NoResult

(***************************************************************************)
(* _make_request: one iteration of `for attempt in range(retries)`         *)
(***************************************************************************)
\* what one HTTP attempt can produce: an httpx exception or a response
Outcome(kind, exc, status, body) ==
    [kind |-> kind, exc |-> exc, status |-> status, body |-> body]

Outcomes(ep) ==
    { Outcome("exc", x, 0, NotDict) : x \in TransientExc }
      \cup { Outcome("resp", NoVal, 429, NotDict) }
      \cup { Outcome("resp", NoVal, r.status, r.body) : r \in ResponsesOf(ep) }

\* how an attempt's outcome is recorded in http: the status of a response;
\* a timeout and a network error take the same path through the loop and
\* are both recorded as "error"
OutTag(o) == IF o.kind = "exc" THEN "error" ELSE StatusStr(o.status)

\* variant: the loop runs once more than `retries`
InRange_OffByOne(k) == k <= Retries

\* `attempt in range(retries)`
InRange(k) == k < Retries

\* variant: a 400 rejection is treated like a rate limit and re-sent
IsRateLimited_Also400(status) == status = 429 \/ status = 400

\* `if response.status_code == 429`
IsRateLimited(status) == status = 429

\* `wait_time = 2 ** attempt`
RateLimitWait(k) == Pow2(k)

\* variant: a fixed delay instead of an exponential one
ErrorWait_Fixed(k) == RETRY_DELAY

\* `self.RETRY_DELAY * (2 ** attempt)`
ErrorWait(k) == RETRY_DELAY * Pow2(k)

\* `if attempt < retries - 1` guards the sleep after a timeout / network error
SleepsAfterError(k) == k < Retries - 1

Transient(o) == o.kind = "exc" \/ IsRateLimited(o.status)

Ev(ev, ep) == [ev |-> ev, ep |-> ep]

\* variant: only the exceptions verify raises itself are caught
Catches_OwnOnly(type) == type = "Exception"

\* `except Exception as e` of verify: every Exception subclass is caught
Catches(type) == TRUE

FailureResult(msg) ==
    [success |-> FALSE, message |-> <<"Verification failed: ">> \o msg,
     verification_id |-> vid, redirect_url |-> NoVal, current_step |-> NoVal,
     student_info |-> NoInfo, returned |-> TRUE]

\* an exception of class `type` with str(e) = msg is raised inside verify
Raise(type, msg) ==
    /\ pc' = "done"
    /\ raised' = [type |-> type, msg |-> msg]
    /\ IF Catches(type)
         THEN result' = FailureResult(msg) /\ escaped' = escaped
         ELSE result' = result /\ escaped' = TRUE

ExhaustedMsg == <<"Request failed after Retries attempts">>

\* One loop iteration of _make_request for endpoint ep with outcome o.  When
\* the iteration returns (data, status), the code of verify that follows the
\* call sets pc, raised, escaped and result.
MakeRequest(ep, o) ==
    LET tr0 == IF attempt = 0 THEN Append(trace, Ev("call", ep)) ELSE trace IN
    /\ http' = Append(http, [ep |-> ep, n |-> attempt, out |-> OutTag(o)])
    /\ IF Transient(o)
         THEN /\ faults < MaxFaults
              /\ faults' = faults + 1
              /\ sleeps' =
                    IF o.kind = "resp"
                      THEN Append(sleeps, [ep |-> ep, after |-> attempt,
                                           kind |-> "429", wait |-> RateLimitWait(attempt)])
                    ELSE IF SleepsAfterError(attempt)
                      THEN Append(sleeps, [ep |-> ep, after |-> attempt,
                                           kind |-> "error", wait |-> ErrorWait(attempt)])
                    ELSE sleeps
              /\ resp' = resp
              /\ IF InRange(attempt + 1)
                   THEN /\ attempt' = attempt + 1
                        /\ trace' = tr0
                        /\ UNCHANGED <<pc, raised, escaped, result>>
                   ELSE /\ attempt' = 0
                        /\ trace' = Append(tr0, Ev("raise", ep))
                        /\ Raise("Exception", ExhaustedMsg)
         ELSE /\ UNCHANGED <<faults, sleeps>>
              /\ attempt' = 0
              /\ trace' = Append(tr0, Ev("ret", ep))
              /\ resp' = [resp EXCEPT ![ep] = Resp(o.status, o.body)]

(***************************************************************************)
(* verify                                                                  *)
(***************************************************************************)
\* lengths of the encoded image generate_student_id_card may return
ImgLens == {11, 12}

\* `str(school.get('id', ''))` for a supplied school, or the id of a
\* pre-verified school when none is supplied
SchoolId(sch) == IF sch = "noid" THEN "" ELSE "243744"

\* `int(school_normalized['id'])` raises ValueError on a non-numeric string
IntParses(str) == str # ""

\* truthiness of an argument: None and "" are false
Supplied(v) == v \notin {NoVal, ""}

\* what NameGenerator.generate, generate_student_email and
\* generate_birth_date can return
GeneratedNames == [first_name : {"James", "Mary"}, last_name : {"Smith"}]
GenerateStudentEmail(first_name, last_name) ==
    Lower(first_name) \o "." \o Lower(last_name) \o "10@student.edu"
GeneratedBirthDates == {"2004-06-15"}

\* `if not first_name or not last_name` is false: the supplied names are kept
NamesKept(first_name, last_name) == Supplied(first_name) /\ Supplied(last_name)

\* lines 211-235: the identity of the run
Identity(name_data, generated_birth_date) ==
    LET first_name == IF NamesKept(given.first_name, given.last_name)
                        THEN given.first_name ELSE name_data.first_name
        last_name == IF NamesKept(given.first_name, given.last_name)
                       THEN given.last_name ELSE name_data.last_name
    IN [first_name |-> first_name,
        last_name |-> last_name,
        email |-> IF Supplied(given.email) THEN given.email
                  ELSE GenerateStudentEmail(first_name, last_name),
        birth_date |-> IF Supplied(given.birth_date) THEN given.birth_date
                       ELSE generated_birth_date]

\* lines 245-249: the identity fields of personal_info
PersonalInfo(id) ==
    [firstName |-> Title(id.first_name), lastName |-> Title(id.last_name),
     birthDate |-> id.birth_date, email |-> id.email]

\* lines 209-262: gather the data and build the step-1 payload
Enter ==
    /\ pc = "entry"
    /\ \E name_data \in GeneratedNames, generated_birth_date \in GeneratedBirthDates :
         /\ identity' = Identity(name_data, generated_birth_date)
         /\ IF IntParses(SchoolId(school))
              THEN /\ payload' = PersonalInfo(identity')
                   /\ pc' = EP1
                   /\ UNCHANGED <<raised, escaped, result>>
              ELSE /\ Raise("ValueError", <<"invalid literal for int()">>)
                   /\ UNCHANGED payload
    /\ UNCHANGED <<pvars, bvars, given, doc, vid, school, attempt, faults, http, sleeps, trace, resp,
                   rendered, imgLen, declared, putLen>>

\* variant: the status of the step-1 response is not looked at
Step1Ok_Unchecked(status) == TRUE

\* `if step1_status != 200` is the failure test of step 1
Step1Ok(status) == status = 200

\* variant: the SSO step is deleted unconditionally
SsoOffered_Always(current_step) == TRUE

\* `if current_step == 'sso'`
SsoOffered(current_step) == current_step = "sso"

\* position of verify after a successful step 1 with marker current_step
AfterStep1(current_step) == IF SsoOffered(current_step) THEN EP2 ELSE "render"

\* variant: the personal info is submitted again after the SSO skip
AfterSso_Resubmit == EP1

\* position of verify after the DELETE step/sso call has returned
AfterSso == "render"

\* `step1_data.get('errorIds', step1_data.get('error', 'Unknown error'))`
Step1ErrorMsg(data) == Get(data, "errorIds", Get(data, "error", "Unknown error"))

\* lines 264-274: what verify does with the step-1 response
Step1Return(data, status) ==
    IF ~data.isDict
         THEN Raise("AttributeError", <<"object has no attribute 'get'">>)
       ELSE IF ~Step1Ok(status)
         THEN Raise("Exception", <<"Step 1 failed (HTTP ", StatusStr(status), "): ",
                                   Step1ErrorMsg(data)>>)
       ELSE IF data.currentStep = "error"
         THEN Raise("Exception", <<"Step 1 validation failed: ",
                                   Get(data, "errorIds", "Unknown")>>)
       ELSE /\ pc' = AfterStep1(data.currentStep)
            /\ UNCHANGED <<raised, escaped, result>>

Step1Attempt ==
    /\ pc = EP1
    /\ \E o \in Outcomes(EP1) :
         /\ MakeRequest(EP1, o)
         /\ IF Transient(o) THEN TRUE ELSE Step1Return(o.body, o.status)
    /\ UNCHANGED <<pvars, bvars, idvars, vid, school, rendered, imgLen, declared, putLen>>

\* lines 279-281: the status of the DELETE is discarded
SsoReturn(data, status) ==
    IF ~data.isDict
         THEN Raise("AttributeError", <<"object has no attribute 'get'">>)
         ELSE /\ pc' = AfterSso
              /\ UNCHANGED <<raised, escaped, result>>

SsoAttempt ==
    /\ pc = EP2
    /\ \E o \in Outcomes(EP2) :
         /\ MakeRequest(EP2, o)
         /\ IF Transient(o) THEN TRUE ELSE SsoReturn(o.body, o.status)
    /\ UNCHANGED <<pvars, bvars, idvars, vid, school, rendered, imgLen, declared, putLen>>

\* variant: the declared size is that of the buffer plus a terminator
FileSize_PlusOne(img_len) == img_len + 1

\* "fileSize": len(img_data)
FileSize(img_len) == img_len

\* lines 285-293: render the document and declare its size
Render ==
    /\ pc = "render"
    /\ rendered' = rendered + 1
    /\ doc' = [first_name |-> identity.first_name, last_name |-> identity.last_name]
    /\ \/ \E n \in ImgLens :
            /\ imgLen' = n
            /\ declared' = FileSize(n)
            /\ pc' = EP3
            /\ UNCHANGED <<raised, escaped, result>>
       \/ /\ Raise("Exception", <<"render error">>)
          /\ UNCHANGED <<imgLen, declared>>
    /\ UNCHANGED <<pvars, bvars, given, identity, payload, vid, school, attempt, faults, http, sleeps, trace, resp,
                   putLen>>

\* lines 297-300
DocReturn(data, status) ==
    IF status # 200
         THEN Raise("Exception", <<"Failed to get S3 upload URLs">>)
       ELSE IF ~data.isDict
         THEN Raise("AttributeError", <<"object has no attribute 'get'">>)
       ELSE IF data.documents = NoVal
         THEN Raise("Exception", <<"Failed to get S3 upload URLs">>)
       ELSE IF data.documents = "nourl"
         THEN Raise("KeyError", <<"'uploadUrl'">>)
       ELSE /\ pc' = "s3"
            /\ UNCHANGED <<raised, escaped, result>>

DocUploadAttempt ==
    /\ pc = EP3
    /\ \E o \in Outcomes(EP3) :
         /\ MakeRequest(EP3, o)
         /\ IF Transient(o) THEN TRUE ELSE DocReturn(o.body, o.status)
    /\ UNCHANGED <<pvars, bvars, idvars, vid, school, rendered, imgLen, declared, putLen>>

\* an upload check that takes every status below 400 for success
UploadOk_Below400(status) == status < 400

\* `200 <= response.status_code < 300`
UploadOk(status) == 200 <= status /\ status < 300

\* what the PUT to the pre-signed URL can produce
PutOutcomes ==
    { Outcome("exc", x, 0, NotDict) : x \in TransientExc }
      \cup { Outcome("resp", NoVal, st, NotDict) : st \in {199, 200, 201, 299, 300, 400, 429} }

\* _upload_to_s3 (one PUT, any exception gives False) and lines 301-302
S3Put ==
    /\ pc = "s3"
    /\ \E o \in PutOutcomes :
         /\ http' = Append(http, [ep |-> PUT, n |-> 0, out |-> OutTag(o)])
         /\ trace' = Append(Append(trace, Ev("call", PUT)), Ev("ret", PUT))
         /\ putLen' = imgLen
         /\ IF o.kind = "resp" /\ UploadOk(o.status)
              THEN /\ pc' = EP4
                   /\ UNCHANGED <<raised, escaped, result>>
              ELSE Raise("Exception", <<"S3 document upload failed">>)
    /\ UNCHANGED <<pvars, bvars, idvars, vid, school, attempt, faults, sleeps, resp, rendered,
                   imgLen, declared>>

SuccessResult(data) ==
    [success |-> TRUE, message |-> <<"Verification submitted successfully!">>,
     verification_id |-> vid, redirect_url |-> data.redirectUrl,
     current_step |-> data.currentStep,
     student_info |-> [name |-> identity.first_name \o " " \o identity.last_name,
                       email |-> identity.email,
                       birth_date |-> identity.birth_date],
     returned |-> TRUE]

\* lines 306-326: the status of the finalize call is discarded
FinalReturn(data, status) ==
    IF ~data.isDict
         THEN Raise("AttributeError", <<"object has no attribute 'get'">>)
         ELSE /\ pc' = "done"
              /\ result' = SuccessResult(data)
              /\ UNCHANGED <<raised, escaped>>

CompleteAttempt ==
    /\ pc = EP4
    /\ \E o \in Outcomes(EP4) :
         /\ MakeRequest(EP4, o)
         /\ IF Transient(o) THEN TRUE ELSE FinalReturn(o.body, o.status)
    /\ UNCHANGED <<pvars, bvars, idvars, vid, school, rendered, imgLen, declared, putLen>>

VNext ==
    \/ Enter
    \/ Step1Attempt
    \/ SsoAttempt
    \/ Render
    \/ DocUploadAttempt
    \/ S3Put
    \/ CompleteAttempt

(***************************************************************************)
(* Helpers for the properties                                              *)
(***************************************************************************)
\* order of the stages in verify
Rank(ep) ==
    CASE ep = EP1 -> 1 [] ep = EP2 -> 2 [] ep = EP3 -> 3 [] ep = PUT -> 4
      [] ep = EP4 -> 5 [] OTHER -> 0

CallIdx == { i \in DOMAIN trace : trace[i].ev = "call" }
Called(ep) == \E i \in CallIdx : trace[i].ep = ep
NCalls(ep) == Cardinality({ i \in CallIdx : trace[i].ep = ep })
HttpIdx(ep) == { i \in DOMAIN http : http[i].ep = ep }
IsFault(tag) == tag \in {"error", "429"}
Exhausted(ep) == \E i \in DOMAIN trace : trace[i] = Ev("raise", ep)
Returned(ep) == resp[ep] # NoResp
Non2xx(status) == ~(200 <= status /\ status < 300)
InMessage(x) == \E i \in DOMAIN result.message : result.message[i] = x
Finished == pc = "done"

(***************************************************************************)
(* C1: the remote calls of one run are issued in the order step 1, SSO     *)
(* skip (only when offered), upload-slot request, PUT, finalize; a stage's *)
(* call is issued only after the previous stage's call has returned; no    *)
(* stage is entered twice.                                                 *)
(***************************************************************************)
C1_CallOrder ==
    /\ \A i, j \in CallIdx : i < j => Rank(trace[i].ep) < Rank(trace[j].ep)
    /\ \A i \in CallIdx : i > 1 => /\ trace[i - 1].ev = "ret"
                                   /\ trace[i - 1].ep # trace[i].ep
    /\ \A i \in CallIdx : i = 1 => trace[i].ep = EP1
    /\ Called(EP2) => Returned(EP1) /\ resp[EP1].body.currentStep = "sso"
    /\ Called(EP3) => Called(EP1)
    /\ Called(PUT) => Called(EP3)
    /\ Called(EP4) => Called(PUT)
    /\ \A i, j \in DOMAIN http : i < j => Rank(http[i].ep) <= Rank(http[j].ep)

\* a successful run that went through all five stages
C1_Witness ==
    /\ Finished /\ result.success
    /\ \A ep \in {EP1, EP2, EP3, PUT, EP4} : NCalls(ep) = 1

(***************************************************************************)
(* C2: when the step-1 call answers non-2xx (or never answers because all  *)
(* attempts were used up), the run ends in failure with no later remote    *)
(* call and without rendering the document.                                *)
(***************************************************************************)
C2_Step1FailureStops ==
    ((Returned(EP1) /\ Non2xx(resp[EP1].status)) \/ Exhausted(EP1)) =>
        /\ Finished
        /\ result.returned /\ ~result.success
        /\ \A i \in DOMAIN http : http[i].ep = EP1
        /\ \A i \in CallIdx : trace[i].ep = EP1
        /\ rendered = 0

\* step 1 was answered 400 by a well-formed body after one retried attempt
C2_Witness ==
    /\ Finished
    /\ Returned(EP1) /\ resp[EP1].status = 400 /\ resp[EP1].body.isDict
    /\ Cardinality(HttpIdx(EP1)) = 2

(***************************************************************************)
(* C3: for each required call (step 1, upload-slot request, finalize) a    *)
(* non-2xx response aborts the run: the result has success = False and its *)
(* message carries the error payload (errorIds, else error) of that        *)
(* response; success = True is never returned after such a response.       *)
(***************************************************************************)
RequiredCalls == {EP1, EP3, EP4}

\* the error payload of a response, NoVal when it has none
ErrorPayload(body) == Get(body, "errorIds", Get(body, "error", NoVal))

C3_RequiredCallAborts ==
    Finished =>
      \A ep \in RequiredCalls :
        (Returned(ep) /\ Non2xx(resp[ep].status)) =>
            /\ result.returned /\ ~result.success
            /\ ErrorPayload(resp[ep].body) # NoVal =>
                  InMessage(ErrorPayload(resp[ep].body))

C5_BoundedAttempts ==
    \A ep \in JsonEndpoints :
        /\ Cardinality(HttpIdx(ep)) <= Retries
        /\ \A i \in HttpIdx(ep) : http[i].n < Retries
        /\ \A i, j \in HttpIdx(ep) : i < j => IsFault(http[i].out)
        /\ Exhausted(ep) <=>
              /\ Cardinality(HttpIdx(ep)) = Retries
              /\ \A i \in HttpIdx(ep) : IsFault(http[i].out)
        /\ Exhausted(ep) => Finished /\ http[Len(http)].ep = ep

\* the upload-slot request used up its attempts on a mix of faults
C5_Witness ==
    /\ Exhausted(EP3)
    /\ \E i, j \in HttpIdx(EP3) : http[i].out = "error" /\ http[j].out = "429"

(***************************************************************************)
(* C6: after the failed attempt with index k the wait before the next      *)
(* attempt is RETRY_DELAY * 2^k for a timeout or network error and 2^k for *)
(* a 429, so within a call each wait is twice the previous one.            *)
(***************************************************************************)
C6_ExponentialBackoff ==
    /\ \A i \in DOMAIN http :
         (IsFault(http[i].out) /\ i < Len(http) /\ http[i + 1].ep = http[i].ep) =>
            \E j \in DOMAIN sleeps :
               /\ sleeps[j].ep = http[i].ep
               /\ sleeps[j].after = http[i].n
               /\ sleeps[j].wait = IF http[i].out = "429" THEN Pow2(http[i].n)
                                   ELSE RETRY_DELAY * Pow2(http[i].n)
    /\ \A j \in DOMAIN sleeps :
         (j > 1 /\ sleeps[j - 1].ep = sleeps[j].ep) =>
            sleeps[j].wait = 2 * sleeps[j - 1].wait

\* two waits in one call, the first after an error and the second after a 429
C6_Witness ==
    \E j \in DOMAIN sleeps :
        /\ j > 1
        /\ sleeps[j - 1].ep = sleeps[j].ep
        /\ sleeps[j - 1].kind = "error" /\ sleeps[j].kind = "429"
        /\ Returned(sleeps[j].ep)

(***************************************************************************)
(* C7: a step-1 response whose status is not 429 is never re-sent (it is   *)
(* the last attempt of the call), and when it is non-200 or carries        *)
(* currentStep = "error" the failure message contains the errorIds value   *)
(* as the remote side returned it.                                         *)
(***************************************************************************)
C7_RejectionNotRetried ==
    /\ \A i, j \in HttpIdx(EP1) : i < j => http[i].out \in {"error", "429"}
    /\ Cardinality({ i \in HttpIdx(EP1) : ~IsFault(http[i].out) }) <= 1
    /\ (/\ Returned(EP1)
        /\ resp[EP1].body.isDict
        /\ resp[EP1].status # 200 \/ resp[EP1].body.currentStep = "error"
        /\ resp[EP1].body.errorIds # NoVal) =>
            /\ Finished /\ result.returned /\ ~result.success
            /\ InMessage(resp[EP1].body.errorIds)

\* a 200 response with currentStep = "error" and both errorIds and error
C7_Witness ==
    /\ Finished
    /\ Returned(EP1) /\ resp[EP1].status = 200
    /\ resp[EP1].body.currentStep = "error"
    /\ resp[EP1].body.errorIds = "invalidEmail" /\ resp[EP1].body.error = "errtext"
    /\ Cardinality(HttpIdx(EP1)) = 1

(***************************************************************************)
(* C8 (as stated): DELETE step/sso is issued iff the step-1 marker is      *)
(* "sso", at most once; with any other marker the run goes from step 1     *)
(* directly to the upload-slot request.                                    *)
(***************************************************************************)
\* step 1 has answered with a marker and verify is past its SSO decision
SsoDecided == Returned(EP1) /\ resp[EP1].body.isDict /\ pc # EP2
Marker == resp[EP1].body.currentStep
\* verify has moved on to preparing the upload-slot request
TowardsUpload == pc = "render" \/ rendered >= 1

C8_AsStated ==
    /\ NCalls(EP2) <= 1
    /\ SsoDecided => (Called(EP2) <=> Marker = "sso")
    /\ (SsoDecided /\ Marker # "sso") => TowardsUpload

(***************************************************************************)
(* C8 (amended): DELETE step/sso is issued iff step 1 answered 200 with    *)
(* marker "sso", at most once; when step 1 answered 200 with a marker      *)
(* other than "sso" and "error" the run goes from step 1 directly to the   *)
(* upload-slot request; a non-200 answer or the marker "error" ends the    *)
(* run with no further call.                                               *)
(***************************************************************************)
C8_SsoIffOffered ==
    /\ NCalls(EP2) <= 1
    /\ SsoDecided => (Called(EP2) <=> (resp[EP1].status = 200 /\ Marker = "sso"))
    /\ (SsoDecided /\ resp[EP1].status = 200 /\ Marker \notin {"sso", "error"}) =>
          /\ ~Called(EP2)
          /\ TowardsUpload
    /\ (SsoDecided /\ (resp[EP1].status # 200 \/ Marker = "error")) =>
          /\ Finished /\ ~result.success
          /\ \A i \in CallIdx : trace[i].ep = EP1

\* a run that skipped SSO and then asked for the upload slot
C8_Witness ==
    /\ NCalls(EP2) = 1 /\ Returned(EP2) /\ Called(EP3)
    /\ resp[EP1].status = 200 /\ Marker = "sso"

(***************************************************************************)
(* C9 (as stated): when the upload-slot request is reached, exactly one    *)
(* POST to step/collectStudentPersonalInfo has been issued.                *)
(***************************************************************************)
C9_AsStated == Called(EP3) => Cardinality(HttpIdx(EP1)) = 1

(***************************************************************************)
(* C9 (amended): when the upload-slot request is reached, step 1 has been  *)
(* called exactly once; that call sent between 1 and Retries POSTs, all    *)
(* before the first POST to step/docUpload, and exactly one of them, the   *)
(* last, was answered (with status 200) - the others ended in a timeout,   *)
(* a network error or a 429.                                               *)
(***************************************************************************)
C9_OneStep1Call ==
    Called(EP3) =>
        /\ NCalls(EP1) = 1
        /\ Cardinality(HttpIdx(EP1)) \in 1..Retries
        /\ Cardinality({ i \in HttpIdx(EP1) : http[i].out = "200" }) = 1
        /\ \A i \in HttpIdx(EP1) :
              IF \E j \in HttpIdx(EP1) : j > i
                THEN IsFault(http[i].out) ELSE http[i].out = "200"
        /\ \A i \in HttpIdx(EP1), j \in HttpIdx(EP3) : i < j

\* the upload-slot request was reached after three POSTs to step 1
C9_Witness ==
    /\ Called(EP3)
    /\ Cardinality(HttpIdx(EP1)) = Retries

(***************************************************************************)
(* The conversation front-end (src/bot.py)                                 *)
(***************************************************************************)
\* bound: number of organizations a search may return (the code caps at 15)
MaxResults == 2

Users == {"u1", "u2"}

\* states of the ConversationHandler; END is ConversationHandler.END, also
\* the state of a user who has no conversation yet
END == "END"
SHEERID_URL == "SHEERID_URL"
NAME == "NAME"
EMAIL == "EMAIL"
SCHOOL_TYPE == "SCHOOL_TYPE"
SCHOOL_SEARCH == "SCHOOL_SEARCH"
BIRTH_DATE == "BIRTH_DATE"

ConvStates == {END, SHEERID_URL, NAME, EMAIL, SCHOOL_TYPE, SCHOOL_SEARCH, BIRTH_DATE}

\* the step names clear_all_timeouts goes through
TimeoutSteps == {"URL", "NAME", "EMAIL", "SCHOOL_TYPE", "SCHOOL_SEARCH", "BIRTH_DATE"}

Fields == {"verification_id", "first_name", "last_name", "full_name", "email",
           "school_type", "school_search", "school_id", "school_name", "birth_date"}

NoUni == [id |-> NoVal, name |-> NoVal]
Unis == { [id |-> "id1", name |-> "Uni One"], [id |-> "id2", name |-> "Uni Two"] }
Slots == 0 .. (MaxResults - 1)

\* user_data[user_id]: has = FALSE when user_id is not a key of user_data;
\* f holds the string-keyed fields, uni the entries "uni_<idx>"
NoSession == [has |-> FALSE, f |-> [k \in Fields |-> NoVal], uni |-> [i \in Slots |-> NoUni]]
EmptySession == [NoSession EXCEPT !.has = TRUE]

\* the last run for the user was not /start
NoStart == [done |-> FALSE, from |-> END, had |-> FALSE, pending |-> {}]

BInit ==
    /\ user_data = [u \in Users |-> NoSession]
    /\ conv = [u \in Users |-> END]
    /\ jobs = [u \in Users |-> [st \in TimeoutSteps |-> 0]]
    /\ sent = [u \in Users |-> <<>>]
    /\ logs = [u \in Users |-> <<>>]
    /\ invoked = [u \in Users |-> FALSE]
    /\ path = [u \in Users |-> <<>>]
    /\ left = [u \in Users |-> NoStart]

\* a set_step_timeout that schedules a job without removing the old ones
SetStepTimeout_Adding(J, u, step) ==
    [J EXCEPT ![u][step] = IF @ < 2 THEN @ + 1 ELSE @]

\* set_step_timeout: remove the jobs of that name, schedule one
SetStepTimeout(J, u, step) == [J EXCEPT ![u][step] = 1]

\* a clear_all_timeouts that removes nothing
ClearAllTimeouts_None(J, u) == J

\* clear_all_timeouts: remove the jobs of every step name of the user
ClearAllTimeouts(J, u) == [J EXCEPT ![u] = [st \in TimeoutSteps |-> 0]]

\* `if user_id in user_data: del user_data[user_id]`
Del(D, u) == [D EXCEPT ![u] = NoSession]

\* user_data[user_id][key] = value
SetField(D, u, key, value) == [D EXCEPT ![u].f[key] = value]

\* a run of a handler or job for user u: everything it leaves behind
Ran(u, D, c, J, msgs, lg, inv, P, L) ==
    /\ user_data' = D
    /\ conv' = [conv EXCEPT ![u] = c]
    /\ jobs' = J
    /\ sent' = [sent EXCEPT ![u] = msgs]
    /\ logs' = [logs EXCEPT ![u] = lg]
    /\ invoked' = [invoked EXCEPT ![u] = inv]
    /\ path' = [path EXCEPT ![u] = P]
    /\ left' = [left EXCEPT ![u] = L]
    /\ UNCHANGED <<vvars, pvars>>

\* a handler run other than /start
HandlerRun(u, D, c, J, msgs, lg, inv) ==
    Ran(u, D, c, J, msgs, lg, inv, path[u], NoStart)

\* a handler run, routed by the ConversationHandler, that accepts the input
\* of a step of the collection sequence
Accepting(u, step, D, c, J, msgs, lg, inv) ==
    Ran(u, D, c, J, msgs, lg, inv, Append(path[u], step), NoStart)

\* a handler run that does not reach the verifier call
Handler(u, D, c, J, msgs, lg) == HandlerRun(u, D, c, J, msgs, lg, FALSE)

\* a handler that raises KeyError on user_data[user_id] before changing
\* anything: the dispatcher logs the error, the conversation state is kept
KeyErrorRun(u) == Handler(u, user_data, conv[u], jobs, <<"KeyError logged">>, <<>>)

\* step_timeout_job: a pending job fires
StepTimeoutJob ==
    \E u \in Users, st \in TimeoutSteps :
        /\ jobs[u][st] > 0
        /\ Handler(u, Del(user_data, u), conv[u],
                   [jobs EXCEPT ![u][st] = @ - 1], <<"timeout">>, <<>>)

\* /start: entry point and fallback, accepted in every state
Start ==
    \E u \in Users :
        /\ conv[u] \in ConvStates
        /\ Ran(u, Del(user_data, u), SHEERID_URL,
               SetStepTimeout(ClearAllTimeouts(jobs, u), u, "URL"),
               <<"reply">>, <<>>, FALSE, <<>>,
               [done |-> TRUE, from |-> conv[u], had |-> user_data[u].has,
                pending |-> {st \in TimeoutSteps : jobs[u][st] > 0}])

\* verification ids the URL pattern `verificationId=([a-f0-9]{24,32})` extracts
UrlIds == {"hex24"}

GetSheeridUrl ==
    \E u \in Users :
        /\ conv[u] = SHEERID_URL
        /\ \/ Handler(u, user_data, SHEERID_URL, SetStepTimeout(jobs, u, "URL"),
                      <<"invalid">>, <<>>)
           \/ \E id \in UrlIds :
                Accepting(u, "URL", [user_data EXCEPT ![u] =
                               [EmptySession EXCEPT !.f["verification_id"] = id]],
                          NAME, SetStepTimeout(ClearAllTimeouts(jobs, u), u, "NAME"),
                          <<"reply">>, <<>>, FALSE)

GetName ==
    \E u \in Users :
        /\ conv[u] = NAME
        /\ \/ Handler(u, user_data, NAME, SetStepTimeout(jobs, u, "NAME"),
                      <<"invalid">>, <<>>)
           \/ IF user_data[u].has
                THEN Accepting(u, "NAME",
                               SetField(SetField(SetField(user_data, u, "first_name", "John"),
                                                 u, "last_name", "Smith"),
                                        u, "full_name", "John Smith"),
                               EMAIL, SetStepTimeout(ClearAllTimeouts(jobs, u), u, "EMAIL"),
                               <<"reply">>, <<>>, FALSE)
                ELSE KeyErrorRun(u)

GetEmail ==
    \E u \in Users :
        /\ conv[u] = EMAIL
        /\ \/ Handler(u, user_data, EMAIL, SetStepTimeout(jobs, u, "EMAIL"),
                      <<"invalid">>, <<>>)
           \/ IF user_data[u].has
                THEN Accepting(u, "EMAIL",
                               SetField(user_data, u, "email", "john@uni.edu"),
                               SCHOOL_TYPE,
                               SetStepTimeout(ClearAllTimeouts(jobs, u), u, "SCHOOL_TYPE"),
                               <<"reply">>, <<>>, FALSE)
                ELSE KeyErrorRun(u)

\* callback data of the inline buttons: a type button, the selection
\* buttons "sel_<user>_<idx>" (of any user's result list), a selection
\* whose index does not parse, and data that is neither
TypeData == {"type_4year"}
SelIdx == 0 .. MaxResults
ButtonData ==
    [kind : {"type"}, data : TypeData, uid : {NoVal}, idx : {0}]
      \cup [kind : {"sel"}, data : {"sel"}, uid : Users, idx : SelIdx]
      \cup [kind : {"badsel", "other"}, data : {"x"}, uid : {NoVal}, idx : {0}]

\* a callback that takes the user from the callback data
SessionUser_FromData(from_user, uid_str) == uid_str

\* the user whose session a selection works on: user_id = query.from_user.id;
\* uid_str, split off the callback data, is not used
SessionUser(from_user, uid_str) == from_user

\* type_map.get(data, "UNIVERSITY")
TypeMap(data) ==
    CASE data = "type_4year" -> "FOUR_YEAR"
      [] data = "type_public" -> "UNIVERSITY"
      [] OTHER -> "UNIVERSITY"

\* user_data.get(user_id, {}).get(f"uni_{idx}")
UniAt(D, u, idx) == IF D[u].has /\ idx \in Slots THEN D[u].uni[idx] ELSE NoUni

\* a ConversationHandler that routes every button in every state
RoutedByConversation_Anywhere(c, b) == TRUE

\* the conversation state in which the ConversationHandler routes the
\* button to button_callback; in every other state the button is handled by
\* the application-level CallbackQueryHandler and the return value is dropped
RoutedByConversation(c, b) ==
    \/ c = SCHOOL_TYPE /\ b.kind = "type"
    \/ c = SCHOOL_SEARCH /\ b.kind \in {"sel", "badsel"}

\* button_callback
ButtonCallback ==
    \E u \in Users, b \in ButtonData :
        LET inConv == RoutedByConversation(conv[u], b)
            to(c) == IF inConv THEN c ELSE conv[u]
            Accepted(step, D, c, J) ==
                IF inConv THEN Accepting(u, step, D, c, J, <<"reply">>, <<>>, FALSE)
                ELSE Handler(u, D, conv[u], J, <<"reply">>, <<>>)
        IN
        CASE b.kind = "type" ->
               LET D0 == IF user_data[u].has THEN user_data
                         ELSE [user_data EXCEPT ![u] = EmptySession]
               IN Accepted("SCHOOL_TYPE",
                           SetField(D0, u, "school_type", TypeMap(b.data)),
                           SCHOOL_SEARCH, SetStepTimeout(jobs, u, "SCHOOL_SEARCH"))
          [] b.kind = "badsel" ->
               Handler(u, user_data, to(END), jobs, <<"reply">>, <<>>)
          [] b.kind = "sel" ->
               LET w == SessionUser(u, b.uid)
               IN IF UniAt(user_data, w, b.idx) = NoUni
                    THEN Handler(u, user_data, to(END), jobs, <<"reply">>,
                                 <<>>)
                    ELSE Accepted("SCHOOL_SEARCH",
                                  SetField(SetField(user_data, w, "school_id",
                                                    UniAt(user_data, w, b.idx).id),
                                           w, "school_name",
                                           UniAt(user_data, w, b.idx).name),
                                  BIRTH_DATE, SetStepTimeout(jobs, w, "BIRTH_DATE"))
          [] OTHER ->
               Handler(u, user_data, to(END), jobs, <<"reply">>, <<>>)

\* the organizations in the order the search ranks them
Ranked == << [id |-> "id1", name |-> "Uni One"], [id |-> "id2", name |-> "Uni Two"] >>

\* what search_universities can return: organizations with pairwise
\* distinct ids, at most MaxResults of them; the searches explored return
\* the first n organizations of the ranking
SearchResults ==
    { r \in UNION { [1..n -> Unis] : n \in 0..MaxResults } :
        /\ \A i, j \in DOMAIN r : i # j => r[i].id # r[j].id
        /\ \A i \in DOMAIN r : r[i] = Ranked[i] }

\* display_universities: user_data[user_id]["uni_<idx>"] = uni for each result
StoreResults(D, u, r) ==
    [D EXCEPT ![u].uni = [i \in Slots |-> IF i + 1 \in DOMAIN r THEN r[i + 1] ELSE @[i]]]

\* the message of display_universities: "Found: <n>" and one button per result
ResultsMessage(n) ==
    CASE n = 1 -> "found 1" [] n = 2 -> "found 2" [] OTHER -> "found more"

GetSchoolName ==
    \E u \in Users :
        /\ conv[u] = SCHOOL_SEARCH
        /\ IF ~user_data[u].has THEN KeyErrorRun(u)
           ELSE \E r \in SearchResults :
                  LET D1 == SetField(user_data, u, "school_search", "query")
                      J1 == SetStepTimeout(jobs, u, "SCHOOL_SEARCH")
                  IN IF r = <<>>
                       THEN Handler(u, D1, END, J1, <<"reply">>, <<>>)
                       ELSE Handler(u, StoreResults(D1, u, r), SCHOOL_SEARCH,
                                    ClearAllTimeouts(J1, u),
                                    <<ResultsMessage(Len(r))>>, <<>>)

\* the fields process_verification requires
Required == {"verification_id", "first_name", "last_name", "email", "birth_date",
             "school_id"}

\* truthiness of state.get(key): None and "" are false
Truthy(v) == v \notin {NoVal, ""}

\* a check that looks only at whether the session exists
Complete_SessionOnly(D, u) == D[u].has

\* all([verification_id, first_name, last_name, email, birth_date, school_id])
\* over state = user_data.get(user_id, {})
Complete(D, u) == D[u].has /\ \A k \in Required : Truthy(D[u].f[k])

\* what the awaited verifier call of process_verification can do
VerifierOutcomes == {"success", "failure", "raise"}

\* the fields of the dataclass VerificationResult
VerificationResultFields ==
    {"success", "pending", "message", "verification_id", "redirect_url",
     "student_info", "current_step"}

\* what is raised inside the try block of process_verification: the
\* verifier's exception, or the AttributeError of `result.error_message`
\* in the branch of a result with success = False; NoVal if nothing
RaisedInTry(outcome) ==
    CASE outcome = "raise" -> "Exception"
      [] outcome = "failure" /\ "error_message" \notin VerificationResultFields ->
           "AttributeError"
      [] OTHER -> NoVal

\* an except clause that catches nothing
PvCatches_None(type) == FALSE

\* `except Exception as e` of process_verification
PvCatches(type) == TRUE

\* process_verification: the messages sent, the log records emitted, and
\* whether an exception leaves the function
ProcessVerification(D, u, outcome) ==
    IF ~Complete(D, u)
      THEN [msgs |-> <<"incomplete data">>, logs |-> <<>>, invoked |-> FALSE,
            raised |-> FALSE]
    ELSE IF RaisedInTry(outcome) # NoVal
      THEN IF PvCatches(RaisedInTry(outcome))
             THEN [msgs |-> <<"sending", "verification error">>,
                   logs |-> <<FALSE>>, invoked |-> TRUE, raised |-> FALSE]
             ELSE [msgs |-> <<"sending">>, logs |-> <<>>, invoked |-> TRUE,
                   raised |-> TRUE]
    ELSE IF outcome = "success"
      THEN [msgs |-> <<"sending", "verification succeeded">>, logs |-> <<TRUE>>,
            invoked |-> TRUE, raised |-> FALSE]
    ELSE [msgs |-> <<"sending", "verification failed">>, logs |-> <<FALSE>>,
          invoked |-> TRUE, raised |-> FALSE]

\* what get_birth_date does to user_data once process_verification is back
AfterVerification(D, u) == D

GetBirthDate ==
    \E u \in Users :
        /\ conv[u] = BIRTH_DATE
        /\ \/ Handler(u, user_data, BIRTH_DATE, SetStepTimeout(jobs, u, "BIRTH_DATE"),
                      <<"invalid">>, <<>>)
           \/ IF ~user_data[u].has THEN KeyErrorRun(u)
              ELSE \E outcome \in VerifierOutcomes :
                     LET D1 == SetField(user_data, u, "birth_date", "2000-05-15")
                         pv == ProcessVerification(D1, u, outcome)
                     IN IF pv.raised
                          THEN HandlerRun(u, D1, BIRTH_DATE, jobs,
                                          pv.msgs \o <<"exception logged">>,
                                          pv.logs, pv.invoked)
                          ELSE Accepting(u, "BIRTH_DATE", AfterVerification(D1, u),
                                         END, ClearAllTimeouts(jobs, u), pv.msgs,
                                         pv.logs, pv.invoked)

BNext ==
    \/ Start
    \/ GetSheeridUrl
    \/ GetName
    \/ GetEmail
    \/ ButtonCallback
    \/ GetSchoolName
    \/ GetBirthDate
    \/ StepTimeoutJob

(***************************************************************************)
(* The organization lookups (src/bot.py, src/config.py)                    *)
(***************************************************************************)
\* bound: length of the longest list the remote lookup answers with
MaxListLen == 8

\* `unique[:15]` of search_universities
MaxChoices == 15

\* `universities[:15]` of search_university_in_sheerid
MaxUniversities == 15

\* JSON values of the key "id": null, a number, a string of digits (v is the
\* number it spells), the empty string
NoneId == [t |-> "none", v |-> 0]
IntId(n) == [t |-> "int", v |-> n]
StrId(n) == [t |-> "str", v |-> n]
EmptyId == [t |-> "empty", v |-> 0]

\* truthiness of an id: None, 0 and "" are false
IdTruthy(id) == ~(id.t \in {"none", "empty"} \/ (id.t = "int" /\ id.v = 0))

\* str(id)
Str(id) ==
    CASE id.t = "int" -> StrId(id.v)
      [] id.t = "none" -> [t |-> "str:None", v |-> 0]
      [] OTHER -> id

\* str.upper() on the type strings that occur
Upper(type) == IF type = "university" THEN "UNIVERSITY" ELSE type

Org(id, type) == [id |-> id, type |-> type]

\* the organizations with ids a, a+1, ..., a+n-1
Run(a, n, type) == [i \in 1..n |-> Org(IntId(a + i - 1), type)]

\* what one GET of the lookup API can produce: an exception, a status other
\* than 200, a body that is not a list, or a list of organizations: runs of
\* consecutive ids that overlap each other, one run longer than the cap, a
\* repeated id, ids that are null, 0, empty, and a number next to the string
\* that spells it
LookupLists(type) ==
    { Run(a, n, type) : a \in {1, 5, 9, 13}, n \in {2, MaxListLen} }
      \cup { <<>>,
              Run(1, 2 * MaxListLen, type),
              << Org(IntId(1), type), Org(IntId(1), type) >>,
              << Org(NoneId, type), Org(IntId(0), type), Org(EmptyId, type),
                 Org(StrId(1), type), Org(IntId(1), type) >> }

LookupResponses(type) ==
    { [kind |-> k, list |-> <<>>] : k \in {"exception", "status", "notlist"} }
      \cup { [kind |-> "list", list |-> l] : l \in LookupLists(type) }

NoRet == [done |-> FALSE, val |-> <<>>]
Return(val) == [done |-> TRUE, val |-> val]
NoArg == [query |-> NoVal, type |-> NoVal]

\* seq[:n]
Take(seq, n) == SubSeq(seq, 1, IF Len(seq) < n THEN Len(seq) ELSE n)

\* the types search_universities goes through
UnivTypes == <<"UNIVERSITY", "COLLEGE", "FOUR_YEAR", "TWO_YEAR">>

\* an iteration whose failure discards what the earlier queries delivered
Extend_LosingOthers(all, r) == IF r.kind = "list" THEN all \o r.list ELSE <<>>

\* all_universities after one iteration: extended by a list that came with
\* status 200; an exception, another status or a body that is not a list
\* leaves it as it is
Extend(all, r) == IF r.kind = "list" THEN all \o r.list ELSE all

\* search_universities: one iteration of the loop over the types
SearchQuery ==
    /\ fn = "search_universities"
    /\ su_k < Len(UnivTypes)
    /\ \E r \in LookupResponses(UnivTypes[su_k + 1]) :
         /\ all_universities' = Extend(all_universities, r)
         /\ queried' = Append(queried, [ok |-> r.kind = "list", list |-> r.list])
    /\ su_k' = su_k + 1
    /\ UNCHANGED <<vvars, bvars, rvars, fn, arg, ret, SHEERID_CACHE, known, got>>

\* search_universities: the loop "Remove duplicates"
RECURSIVE RemoveDuplicates(_, _, _)
RemoveDuplicates(list, seen, unique) ==
    IF list = <<>> THEN unique
    ELSE LET sid == Head(list).id
         IN IF IdTruthy(sid) /\ sid \notin seen
              THEN RemoveDuplicates(Tail(list), seen \cup {sid}, Append(unique, Head(list)))
              ELSE RemoveDuplicates(Tail(list), seen, unique)

\* search_universities: after the loop over the types
SearchReturn ==
    /\ fn = "search_universities"
    /\ su_k = Len(UnivTypes)
    /\ ~ret.done
    /\ ret' = Return(Take(RemoveDuplicates(all_universities, {}, <<>>), MaxChoices))
    /\ UNCHANGED <<vvars, bvars, rvars, fn, arg, su_k, all_universities, SHEERID_CACHE, cvars>>

\* normalize_school_data, the id of the result
NormalizeSchoolData(school_data) == [id |-> Str(school_data.id)]

\* search_university_in_sheerid: the loop "Filter & normalize results"
RECURSIVE FilterNormalize(_, _, _)
FilterNormalize(results, seen_ids, universities) ==
    IF results = <<>> THEN universities
    ELSE LET org == Head(results)
         IN IF IdTruthy(org.id) /\ org.id \notin seen_ids
              THEN FilterNormalize(Tail(results), seen_ids \cup {org.id},
                     IF Upper(org.type) \in {"UNIVERSITY", "COLLEGE", "FOUR_YEAR"}
                       THEN Append(universities, NormalizeSchoolData(org))
                       ELSE universities)
              ELSE FilterNormalize(Tail(results), seen_ids, universities)

Queries == {"Stanford", "stanford"}
LookupTypes == {"UNIVERSITY", "university", "TWO_YEAR"}

\* a cache key that keeps the query as typed
CacheKey_AsTyped(query, university_type) == <<query, university_type>>

\* cache_key = f"{query.lower()}|{university_type}"
CacheKey(query, university_type) == <<Lower(query), university_type>>
CacheKeys == { CacheKey(q, t) : q \in Queries, t \in LookupTypes }

\* the queries up to letter case, with the type
KnownKeys == { <<Lower(q), t>> : q \in Queries, t \in LookupTypes }
NoKnown == [done |-> FALSE, query |-> NoVal, val |-> <<>>]
NoCall == [get |-> "none", expected |-> FALSE, list |-> <<>>]

\* a lookup that stores whatever it ends with
ReachesCacheStore_Always(kind) == TRUE

\* the answers of the GET with which the call gets as far as the store of
\* line 100: a non-200 status, a body that is not a list and an exception
\* return [] before it
ReachesCacheStore(kind) == kind = "list"

\* search_university_in_sheerid: one call
SearchUniversityInSheerid ==
    /\ fn = "search_university_in_sheerid"
    /\ \E query \in Queries, university_type \in LookupTypes :
         LET cache_key == CacheKey(query, university_type)
         IN /\ arg' = [query |-> query, type |-> university_type]
            /\ IF SHEERID_CACHE[cache_key].done
                 THEN /\ ret' = Return(SHEERID_CACHE[cache_key].val)
                      /\ got' = [get |-> "none",
                                 expected |-> known[<<Lower(query), university_type>>].done,
                                 list |-> known[<<Lower(query), university_type>>].val]
                      /\ UNCHANGED <<SHEERID_CACHE, known>>
                 ELSE \E r \in LookupResponses(university_type) :
                        /\ got' = [get |-> r.kind,
                                   expected |-> known[<<Lower(query), university_type>>].done,
                                   list |-> known[<<Lower(query), university_type>>].val]
                        /\ IF ~ReachesCacheStore(r.kind)
                          THEN /\ ret' = Return(<<>>)
                               /\ UNCHANGED <<SHEERID_CACHE, known>>
                          ELSE LET universities ==
                                     IF r.kind = "list"
                                       THEN Take(FilterNormalize(r.list, {}, <<>>),
                                                 MaxUniversities)
                                       ELSE <<>>
                               IN /\ SHEERID_CACHE' =
                                       [SHEERID_CACHE EXCEPT ![cache_key] =
                                            Return(universities)]
                                  /\ ret' = Return(universities)
                                  /\ known' =
                                       IF r.kind # "list" THEN known ELSE
                                       [known EXCEPT ![<<Lower(query), university_type>>] =
                                            [done |-> TRUE, query |-> query,
                                             val |-> universities]]
    /\ UNCHANGED <<vvars, bvars, rvars, fn, su_k, all_universities, queried>>

\* clear_cache
ClearCache ==
    /\ fn = "search_university_in_sheerid"
    /\ SHEERID_CACHE' = [k \in CacheKeys |-> NoRet]
    /\ known' = [k \in KnownKeys |-> NoKnown]
    /\ UNCHANGED <<vvars, bvars, rvars, fn, arg, ret, su_k, all_universities, got, queried>>

SearchNext == SearchQuery \/ SearchReturn \/ SearchUniversityInSheerid \/ ClearCache

(***************************************************************************)
(* The document renderer (src/img_generator.py)                            *)
(***************************************************************************)
\* bound: the sides of a fetched photo are 125, 250, ..., 125 * MaxPhotoSide
MaxPhotoSide == 4

\* `width, height = 1012, 638`
CardWidth == 1012
CardHeight == 638

PhotoSides == { 125 * k : k \in 1..MaxPhotoSide }

\* a PIL image: its size and whether its pixel data can be decoded (an image
\* made by Image.new always can; Image.open reads the header only and
\* leaves the decoding to the first operation that needs the pixels)
Img(w, h, loadable) == [w |-> w, h |-> h, loadable |-> loadable]
NoImg == Img(0, 0, FALSE)

\* Image.new('RGB', (300, 300), ...) of the fallback
Placeholder == Img(300, 300, TRUE)

\* what the two GETs of get_random_student_photo can produce.  The API:
\* an exception, a body that is not JSON, JSON without results[0].picture.
\* large, or a photo URL.  The photo URL: an exception, a body in which
\* Image.open identifies no image, or an image whose header is intact and
\* whose data decodes or does not
ApiOutcomes == {"exception", "notjson", "nokey", "url"}
PhotoOutcomes ==
    { [kind |-> k, img |-> NoImg] : k \in {"exception", "unidentified"} }
      \cup { [kind |-> "image", img |-> Img(w, h, l)] :
                w \in PhotoSides, h \in PhotoSides, l \in BOOLEAN }

\* the environment of one call of generate_student_id_card
RenderEnvs == [api : ApiOutcomes, photo : PhotoOutcomes]

\* Image.open(BytesIO(photo_response.content)) does not raise
ImageOpen(body) == body.kind = "image"

\* get_random_student_photo
GetRandomStudentPhoto(env) ==
    IF env.api = "url" /\ ImageOpen(env.photo) THEN env.photo.img ELSE Placeholder

\* lines 52-78: the blank card, the fonts (the default font when the system
\* fonts are missing), the header
NewCard ==
    /\ fn = "generate_student_id_card"
    /\ rpc = "start"
    /\ card' = Img(CardWidth, CardHeight, TRUE)
    /\ rpc' = "photo"
    /\ UNCHANGED <<vvars, bvars, fn, arg, ret, su_k, all_universities, SHEERID_CACHE, cvars,
                   photo>>

\* line 81: photo = get_random_student_photo()
FetchPhoto ==
    /\ fn = "generate_student_id_card"
    /\ rpc = "photo"
    /\ photo' = GetRandomStudentPhoto(arg)
    /\ rpc' = "paste"
    /\ UNCHANGED <<vvars, bvars, fn, arg, ret, su_k, all_universities, SHEERID_CACHE, cvars,
                   card>>

\* the outcome of generate_student_id_card: an exception, or the encoded
\* image (its dimensions and its number of bytes)
RenderRaised == Return([raised |-> TRUE, w |-> 0, h |-> 0, nbytes |-> 0])
RenderReturned(img, nbytes) ==
    Return([raised |-> FALSE, w |-> img.w, h |-> img.h, nbytes |-> nbytes])

\* lines 82-83: photo.resize((250, 300)) decodes the photo and raises when
\* the data cannot be decoded; card.paste leaves the size of the card alone
PastePhoto ==
    /\ fn = "generate_student_id_card"
    /\ rpc = "paste"
    /\ IF photo.loadable
         THEN /\ photo' = Img(250, 300, TRUE)
              /\ rpc' = "draw"
              /\ UNCHANGED ret
         ELSE /\ ret' = RenderRaised
              /\ rpc' = "done"
              /\ UNCHANGED photo
    /\ UNCHANGED <<vvars, bvars, fn, arg, su_k, all_universities, SHEERID_CACHE, cvars, card>>

\* lines 85-130: the text fields, the code, the border, card.save as PNG
Encode ==
    /\ fn = "generate_student_id_card"
    /\ rpc = "draw"
    /\ \E nbytes \in ImgLens : ret' = RenderReturned(card, nbytes)
    /\ rpc' = "done"
    /\ UNCHANGED <<vvars, bvars, fn, arg, su_k, all_universities, SHEERID_CACHE, cvars,
                   photo, card>>

RenderNext == NewCard \/ FetchPhoto \/ PastePhoto \/ Encode

(***************************************************************************)
(* The birth date of the data synthesizer (src/name_generator.py)          *)
(***************************************************************************)
\* random.randint(18, 24)
MinYearsAgo == 18
MaxYearsAgo == 24

Date(y, m, d) == [year |-> y, month |-> m, day |-> d]

\* the calendar: leap years, days of a month
IsLeap(y) == (y % 4 = 0 /\ y % 100 # 0) \/ y % 400 = 0
DaysIn(y, m) ==
    IF m = 2 THEN (IF IsLeap(y) THEN 29 ELSE 28)
    ELSE IF m \in {4, 6, 9, 11} THEN 30 ELSE 31
ValidDate(date) ==
    /\ date.month \in 1..12
    /\ date.day \in 1..DaysIn(date.year, date.month)

\* values of datetime.now(): the first and the last day of a year, days in
\* the middle, the leap day
Todays ==
    { Date(2024, 2, 29), Date(2025, 1, 1), Date(2025, 6, 15), Date(2025, 9, 30),
      Date(2025, 12, 31) }

\* the two digits of `{n:02d}`
Pad2(n) == <<n \div 10, n % 10>>

\* f"{birth_year}-{birth_month:02d}-{birth_day:02d}"
FormatDate(y, m, d) == [yyyy |-> y, mm |-> Pad2(m), dd |-> Pad2(d)]

\* the date a string "YYYY-MM-DD" denotes
ParseDate(str) ==
    Date(str.yyyy, 10 * str.mm[1] + str.mm[2], 10 * str.dd[1] + str.dd[2])

\* the upper end of random.randint(1, n) for the day of the month
LastDay(birth_month) ==
    IF birth_month = 2 THEN 28
    ELSE IF birth_month \in {4, 6, 9, 11} THEN 30 ELSE 31

\* generate_birth_date
GenerateBirthDate ==
    /\ fn = "generate_birth_date"
    /\ ~ret.done
    /\ \E years_ago \in MinYearsAgo..MaxYearsAgo, birth_month \in 1..12 :
         \E birth_day \in 1..LastDay(birth_month) :
            ret' = Return(FormatDate(arg.today.year - years_ago, birth_month, birth_day))
    /\ UNCHANGED <<vvars, bvars, rvars, fn, arg, su_k, all_universities, SHEERID_CACHE, cvars>>

\* ---- name_generator.generate_student_email, character by character ----

\* the names passed; a string is the sequence of its characters
NameStrings ==
    { <<>>, <<"J">>, <<"M", "a", "y">>, <<"L", "e", "e">>, <<"S", "m", "y">>,
      <<"7">>, <<"L", "e", " ", "M", "a", "y">> }

\* str.lower() of one character
LowerChar(c) ==
    CASE c = "M" -> "m" [] c = "J" -> "j" [] c = "S" -> "s" [] c = "L" -> "l"
      [] OTHER -> c

\* str.lower()
LowerStr(str) == [i \in DOMAIN str |-> LowerChar(str[i])]

\* the decimal digits an f-string writes for a natural number
DigitChars == <<"0", "1", "2", "3", "4", "5", "6", "7", "8", "9">>
RECURSIVE IntStr(_)
IntStr(n) ==
    IF n < 10 THEN <<DigitChars[n + 1]>>
    ELSE IntStr(n \div 10) \o <<DigitChars[(n % 10) + 1]>>

\* the lower end of the random.randint of each entry of patterns
SuffixLow_One(pattern) == 1
SuffixLow(pattern) ==
    CASE pattern = 1 -> 10 [] pattern = 2 -> 100 [] pattern = 3 -> 10
      [] pattern = 4 -> 1000

\* the upper end of the random.randint of each entry of patterns
SuffixHigh(pattern) ==
    CASE pattern = 1 -> 99 [] pattern = 2 -> 999 [] pattern = 3 -> 99
      [] pattern = 4 -> 9999

\* the values of random.randint(low, high) that are explored: both ends and
\* their neighbours
SuffixDraws(pattern) ==
    { SuffixLow(pattern), SuffixLow(pattern) + 1,
      SuffixHigh(pattern) - 1, SuffixHigh(pattern) }

\* the entries of the list patterns; n is the random number of the entry
Pattern(pattern, first_name, last_name, n) ==
    CASE pattern = 1 ->
           LowerStr(first_name) \o <<".">> \o LowerStr(last_name) \o IntStr(n)
      [] pattern = 2 ->
           LowerStr(first_name) \o LowerStr(last_name) \o IntStr(n)
      [] pattern = 3 ->
           LowerStr(<<first_name[1]>>) \o LowerStr(last_name) \o IntStr(n)
      [] pattern = 4 ->
           LowerStr(first_name) \o LowerStr(<<last_name[1]>>) \o IntStr(n)

\* the list domains
EmailDomains ==
    { "student.edu", "mail.edu", "college.edu", "university.edu",
      "stu.edu", "campus.edu", "school.edu" }

\* first_name[0] or last_name[0] of an empty string: all four entries of
\* patterns are built before one is chosen
IndexErrorRaised(first_name, last_name) == first_name = <<>> \/ last_name = <<>>

\* generate_student_email: the returned string is username, "@" and domain
GenerateStudentEmailCall ==
    /\ fn = "generate_student_email"
    /\ ~ret.done
    /\ IF IndexErrorRaised(arg.first_name, arg.last_name)
       THEN ret' = Return([raised |-> TRUE, username |-> <<>>, domain |-> ""])
       ELSE \E pattern \in 1..4, domain \in EmailDomains :
              \E n \in SuffixDraws(pattern) :
                 ret' = Return([raised |-> FALSE,
                                username |-> Pattern(pattern, arg.first_name,
                                                     arg.last_name, n),
                                domain |-> domain])
    /\ UNCHANGED <<vvars, bvars, rvars, fn, arg, su_k, all_universities, SHEERID_CACHE, cvars>>

\* ---- verification ids: bot.get_sheerid_url against SheerIDVerifier ----

\* longest run of hex digits explored after the key of a URL
MaxHexRun == 34
MinUrlIdLen == 24
MaxUrlIdLen == 32
VerifierIdLen == 32

\* a URL: the key that precedes a run of hex digits, and the length of the
\* run; an id is the prefix of the run of a given length
UrlKeys == {"verificationId=", "verification/", "none"}
Urls == [key : UrlKeys, run : 0..MaxHexRun]
NoId == [has |-> FALSE, len |-> 0]
IdOf(n) == [has |-> TRUE, len |-> n]

\* re.search(r"verificationId=([a-f0-9]{24,32})", url, re.IGNORECASE): the
\* greedy group takes up to 32 digits of the run
UrlStepId(url) ==
    IF url.key = "verificationId=" /\ url.run >= MinUrlIdLen
      THEN IdOf(IF url.run > MaxUrlIdLen THEN MaxUrlIdLen ELSE url.run)
      ELSE NoId

\* parse_verification_id: three patterns, each with exactly 32 hex digits
ParseVerificationId(url) ==
    IF url.key \in {"verificationId=", "verification/"} /\ url.run >= VerifierIdLen
      THEN IdOf(VerifierIdLen)
      ELSE NoId

\* SheerIDVerifier.__init__: `not re.match(r'^[a-f0-9]{32}$', id, re.I)`
InitRaisesValueError(id) == id.len # VerifierIdLen

\* the URL step on one URL, with what the verifier side makes of the same
\* URL and of the stored id
UrlStep ==
    /\ fn = "get_sheerid_url"
    /\ ~ret.done
    /\ ret' = Return([stored |-> UrlStepId(arg),
                      parsed |-> ParseVerificationId(arg),
                      value_error |-> UrlStepId(arg).has
                                        /\ InitRaisesValueError(UrlStepId(arg))])
    /\ UNCHANGED <<vvars, bvars, rvars, fn, arg, su_k, all_universities, SHEERID_CACHE, cvars>>

\* no helper function is being run
PIdle ==
    /\ fn = "none"
    /\ arg = NoArg
    /\ ret = NoRet
    /\ su_k = 0
    /\ all_universities = <<>>
    /\ SHEERID_CACHE = [k \in CacheKeys |-> NoRet]
    /\ known = [k \in KnownKeys |-> NoKnown]
    /\ got = NoCall
    /\ queried = <<>>
    /\ rpc = "start"
    /\ photo = NoImg
    /\ card = NoImg

(***************************************************************************)
(* Specifications: one run of verify; the conversations of the front-end;  *)
(* calls of the helper functions                                           *)
(***************************************************************************)
vars == <<vvars, bvars, pvars>>

\* one run of verify with every argument supplied, no conversation going on
VerifyInit == VInit /\ given = AllGiven /\ faults = 0 /\ BInit /\ PIdle
SpecVerify == VerifyInit /\ [][VNext]_vars

\* the same run when every HTTP call eventually returns or raises: verify
\* runs sequentially, so the step it is at is eventually taken
SpecVerifyFair == SpecVerify /\ WF_vars(VNext)

\* the conversations of all users, no run of verify going on
VIdle == VInit /\ vid = "vidA" /\ school = "valid" /\ given = AllGiven /\ faults = 0
BotInit == VIdle /\ BInit /\ PIdle
SpecBot == BotInit /\ [][BNext]_vars

\* one run of verify for every combination of supplied and missing
\* arguments, in an environment that has no transient fault left to inject
IdentityInit ==
    VInit /\ vid = "vidA" /\ school = "valid" /\ faults = MaxFaults /\ BInit /\ PIdle
SpecIdentity == IdentityInit /\ [][VNext]_vars

\* one call of search_universities, or calls of search_university_in_sheerid
SearchInit ==
    /\ VIdle /\ BInit
    /\ fn \in {"search_universities", "search_university_in_sheerid"}
    /\ arg = NoArg
    /\ ret = NoRet
    /\ su_k = 0
    /\ all_universities = <<>>
    /\ SHEERID_CACHE = [k \in CacheKeys |-> NoRet]
    /\ known = [k \in KnownKeys |-> NoKnown]
    /\ got = NoCall
    /\ queried = <<>>
    /\ rpc = "start" /\ photo = NoImg /\ card = NoImg
SpecSearch == SearchInit /\ [][SearchNext]_vars

\* one call of generate_student_id_card in every environment
RenderInit ==
    /\ VIdle /\ BInit
    /\ fn = "generate_student_id_card"
    /\ arg \in RenderEnvs
    /\ ret = NoRet
    /\ su_k = 0
    /\ all_universities = <<>>
    /\ SHEERID_CACHE = [k \in CacheKeys |-> NoRet]
    /\ known = [k \in KnownKeys |-> NoKnown]
    /\ got = NoCall
    /\ queried = <<>>
    /\ rpc = "start" /\ photo = NoImg /\ card = NoImg
SpecRender == RenderInit /\ [][RenderNext]_vars

\* one call of generate_birth_date on each of the days
BirthInit ==
    /\ VIdle /\ BInit
    /\ fn = "generate_birth_date"
    /\ arg \in [today : Todays]
    /\ ret = NoRet
    /\ su_k = 0
    /\ all_universities = <<>>
    /\ SHEERID_CACHE = [k \in CacheKeys |-> NoRet]
    /\ known = [k \in KnownKeys |-> NoKnown]
    /\ got = NoCall
    /\ queried = <<>>
    /\ rpc = "start" /\ photo = NoImg /\ card = NoImg
SpecBirth == BirthInit /\ [][GenerateBirthDate]_vars

EmailInit ==
    /\ VIdle /\ BInit
    /\ fn = "generate_student_email"
    /\ arg \in [first_name : NameStrings, last_name : NameStrings]
    /\ ret = NoRet
    /\ su_k = 0
    /\ all_universities = <<>>
    /\ SHEERID_CACHE = [k \in CacheKeys |-> NoRet]
    /\ known = [k \in KnownKeys |-> NoKnown]
    /\ got = NoCall
    /\ queried = <<>>
    /\ rpc = "start" /\ photo = NoImg /\ card = NoImg
SpecEmail == EmailInit /\ [][GenerateStudentEmailCall]_vars

UrlInit ==
    /\ VIdle /\ BInit
    /\ fn = "get_sheerid_url"
    /\ arg \in Urls
    /\ ret = NoRet
    /\ su_k = 0
    /\ all_universities = <<>>
    /\ SHEERID_CACHE = [k \in CacheKeys |-> NoRet]
    /\ known = [k \in KnownKeys |-> NoKnown]
    /\ got = NoCall
    /\ queried = <<>>
    /\ rpc = "start" /\ photo = NoImg /\ card = NoImg
SpecUrl == UrlInit /\ [][UrlStep]_vars

(***************************************************************************)
(* C10: a session is discarded at the end of its lifetime: right after a   *)
(* verification run has completed (successfully or not) and right after a  *)
(* step timeout has fired, the user is not a key of user_data.             *)
(***************************************************************************)
VerificationOver(u) ==
    sent[u] \in { <<"sending", "verification succeeded">>,
                  <<"sending", "verification failed">>,
                  <<"sending", "verification error">> }

TimedOut(u) == sent[u] = <<"timeout">>

C10_SessionDiscarded ==
    \A u \in Users :
        ((VerificationOver(u) /\ conv[u] = END) \/ TimedOut(u)) => ~user_data[u].has

(***************************************************************************)
(* C11: process_verification aborts before the verifier is called when     *)
(* required session data is missing: when it has run for a user whose      *)
(* session is absent or lacks a non-empty verification_id, first_name,     *)
(* last_name, email, birth_date or school_id, the only message it sent is  *)
(* the incomplete-data message and the verifier was not called.            *)
(***************************************************************************)
ProcessVerificationRan(u) ==
    sent[u] # <<>> /\ sent[u][1] \in {"incomplete data", "sending"}

MissingData(u) ==
    \/ ~user_data[u].has
    \/ \E k \in {"verification_id", "first_name", "last_name", "email",
                 "birth_date", "school_id"} : user_data[u].f[k] \in {NoVal, ""}

C11_AbortsWhenIncomplete ==
    \A u \in Users :
        /\ (ProcessVerificationRan(u) /\ MissingData(u))
             => (sent[u] = <<"incomplete data">> /\ ~invoked[u] /\ logs[u] = <<>>)
        \* called for a user who is not a key of user_data
        /\ \A o \in VerifierOutcomes :
             LET pv == ProcessVerification(Del(user_data, u), u, o)
             IN  pv.msgs = <<"incomplete data">> /\ ~pv.invoked

\* process_verification has run on a session that has a birth date and no
\* verification id, and did not call the verifier
C11_Witness ==
    \E u \in Users :
        /\ sent[u] = <<"incomplete data">>
        /\ user_data[u].has
        /\ user_data[u].f["birth_date"] # NoVal
        /\ user_data[u].f["verification_id"] = NoVal
        /\ ~invoked[u]

(***************************************************************************)
(* C12: whenever a conversation waits for input in one of the states       *)
(* SHEERID_URL, NAME, EMAIL, SCHOOL_TYPE, SCHOOL_SEARCH, BIRTH_DATE, a      *)
(* timeout job of that user is pending.                                    *)
(***************************************************************************)
WaitingStates == ConvStates \ {END}

TimeoutPending(u) == \E st \in TimeoutSteps : jobs[u][st] > 0

C12_WaitingHasTimeout ==
    \A u \in Users : conv[u] \in WaitingStates => TimeoutPending(u)

(***************************************************************************)
(* C13: sessions of different users are independent under every           *)
(* interleaving: each handler, button callback or timeout job runs for one *)
(* user and leaves user_data[B] and the timeout jobs of every other user B *)
(* as they were (and B's conversation state and outputs as well).          *)
(***************************************************************************)
Untouched(b) ==
    /\ user_data'[b] = user_data[b]
    /\ jobs'[b] = jobs[b]
    /\ conv'[b] = conv[b]
    /\ sent'[b] = sent[b]
    /\ logs'[b] = logs[b]
    /\ invoked'[b] = invoked[b]

C13_UsersIndependent ==
    [][\E a \in Users : \A b \in Users \ {a} : Untouched(b)]_vars

\* the events of two users have interleaved: u1 has selected an organization
\* and has a job pending, while u2 got as far as the school search and was
\* then timed out
C13_Witness ==
    /\ conv["u1"] = BIRTH_DATE
    /\ user_data["u1"].f["school_id"] = "id2"
    /\ TimeoutPending("u1")
    /\ conv["u2"] = SCHOOL_SEARCH
    /\ sent["u2"] = <<"timeout">>
    /\ ~user_data["u2"].has
    /\ ~TimeoutPending("u2")

(***************************************************************************)
(* C14: the lists returned by search_universities and by                   *)
(* search_university_in_sheerid have pairwise distinct ids and at most 15  *)
(* entries, whatever the remote lookup answered.                           *)
(***************************************************************************)
DistinctIds(list) ==
    \A i, j \in DOMAIN list : i # j => list[i].id # list[j].id

C14_DistinctAndCapped ==
    ret.done => (DistinctIds(ret.val) /\ Len(ret.val) <= 15)

(***************************************************************************)
(* C15: the identity of a run is fixed once: the name, birth date and      *)
(* email determined at the start of verify are exactly the values of the   *)
(* step-1 payload, the names given to the document renderer and the values *)
(* of student_info in the result.                                          *)
(***************************************************************************)
C15_IdentityFixed ==
    /\ payload # NoPayload =>
          /\ payload.firstName = identity.first_name
          /\ payload.lastName = identity.last_name
          /\ payload.birthDate = identity.birth_date
          /\ payload.email = identity.email
    /\ doc # NoDoc =>
          /\ doc.first_name = identity.first_name
          /\ doc.last_name = identity.last_name
    /\ result.success =>
          /\ result.student_info.name = identity.first_name \o " " \o identity.last_name
          /\ result.student_info.email = identity.email
          /\ result.student_info.birth_date = identity.birth_date

(***************************************************************************)
(* C16: verify generates only the identity fields the caller did not       *)
(* supply: once the identity is determined, each of first_name, last_name, *)
(* email, birth_date that was passed (not None) has the passed value, and  *)
(* each that was None has a generated one.                                 *)
(***************************************************************************)
IdentityFields == {"first_name", "last_name", "email", "birth_date"}

GeneratedValues(field) ==
    CASE field = "first_name" -> { n.first_name : n \in GeneratedNames }
      [] field = "last_name" -> { n.last_name : n \in GeneratedNames }
      [] field = "email" -> { GenerateStudentEmail(identity.first_name, identity.last_name) }
      [] OTHER -> GeneratedBirthDates

C16_OnlyMissingGenerated ==
    identity # NoIdentity =>
        \A k \in IdentityFields :
            IF given[k] # NoVal THEN identity[k] = given[k]
            ELSE identity[k] \in GeneratedValues(k)

(***************************************************************************)
(* C17: the rendered document is written once and consumed by the upload:  *)
(* generate_student_id_card is called at most once in a run and only after *)
(* step 1 has returned 200 with a marker other than "error"; the buffer    *)
(* PUT to the upload URL is the rendered one, and its length is the        *)
(* fileSize declared in the step/docUpload call that returned before it.   *)
(***************************************************************************)
Step1Succeeded ==
    /\ Returned(EP1)
    /\ resp[EP1].status = 200
    /\ resp[EP1].body.currentStep # "error"

C17_DocumentWriteOnce ==
    /\ rendered <= 1
    /\ rendered > 0 => Step1Succeeded
    /\ imgLen # 0 => rendered = 1
    /\ Called(PUT) =>
          /\ Returned(EP3)
          /\ imgLen \in ImgLens
          /\ putLen = imgLen
          /\ putLen = declared

\* a run that skipped the SSO stage, rendered once and PUT the 12 bytes it
\* had declared
C17_Witness ==
    /\ Called(EP2)
    /\ rendered = 1
    /\ Called(PUT)
    /\ putLen = 12
    /\ declared = 12

(***************************************************************************)
(* C18: a failure of the photo fetch (request error, a body that is not    *)
(* the expected JSON, image data that cannot be parsed) never fails the    *)
(* render: get_random_student_photo hands back the placeholder, and        *)
(* generate_student_id_card returns a non-empty encoded image of 1012x638. *)
(***************************************************************************)
FetchFailed ==
    \/ arg.api # "url"
    \/ arg.photo.kind # "image"
    \/ ~arg.photo.img.loadable

C18_PhotoFailureRecovered ==
    (fn = "generate_student_id_card" /\ FetchFailed) =>
        /\ rpc \in {"paste", "draw", "done"} =>
              (photo = Placeholder \/ photo = Img(250, 300, TRUE))
        /\ ret.done =>
              /\ ~ret.val.raised
              /\ ret.val.w = 1012 /\ ret.val.h = 638
              /\ ret.val.nbytes > 0

(***************************************************************************)
(* C19: every run of verify terminates when each HTTP call eventually      *)
(* returns or raises, and it returns exactly one VerificationResult: the   *)
(* success outcome, reached only after the finalize call has returned, or  *)
(* the failure outcome; no run ends without a result, and no result exists *)
(* before the run has ended.                                               *)
(***************************************************************************)
OneResult ==
    /\ result.returned
    /\ ~escaped
    /\ IF result.success
         THEN Returned(EP4) /\ raised = NoExc
         ELSE raised # NoExc /\ result.student_info = NoInfo

C19_Terminates ==
    /\ [](Finished => OneResult)
    /\ [](~Finished => result = NoResult)
    /\ [][Finished => UNCHANGED result]_vars
    /\ <>Finished

\* a run that met as many transient faults as the environment injects and
\* still returned the success outcome
C19_Witness ==
    /\ Finished
    /\ faults = MaxFaults
    /\ result.success
    /\ Returned(EP4)

(***************************************************************************)
(* C20: whatever the current date and the random choices, the string       *)
(* generate_birth_date returns denotes a valid calendar date, and the age  *)
(* in completed years it implies on the current date is within 18..24.     *)
(***************************************************************************)
\* completed years between the birth date and today
Age(birth, today) ==
    today.year - birth.year
      - (IF today.month < birth.month
            \/ (today.month = birth.month /\ today.day < birth.day)
           THEN 1 ELSE 0)

C20_ValidDateInBand ==
    (fn = "generate_birth_date" /\ ret.done) =>
        /\ ValidDate(ParseDate(ret.val))
        /\ Age(ParseDate(ret.val), arg.today) \in 18..24

(***************************************************************************)
(* C21: whatever first and last name are passed, the local part of the     *)
(* address generate_student_email returns is one of the four name-derived  *)
(* patterns (first.last, firstlast, first initial + last, first + last     *)
(* initial, lower-cased) followed only by decimal digits, as many as the   *)
(* pattern's fixed width (2, 3, 2, 4), and the domain is one of the pool.  *)
(***************************************************************************)
SuffixWidth(pattern) ==
    CASE pattern = 1 -> 2 [] pattern = 2 -> 3 [] pattern = 3 -> 2 [] pattern = 4 -> 4
NamePart(pattern, first, last) ==
    CASE pattern = 1 -> LowerStr(first) \o <<".">> \o LowerStr(last)
      [] pattern = 2 -> LowerStr(first) \o LowerStr(last)
      [] pattern = 3 -> <<LowerChar(Head(first))>> \o LowerStr(last)
      [] pattern = 4 -> LowerStr(first) \o <<LowerChar(Head(last))>>
EmailReturned ==
    fn = "generate_student_email" /\ ret.done /\ ~ret.val.raised
C21_EmailShape ==
    EmailReturned =>
        /\ ret.val.domain \in EmailDomains
        /\ \E pattern \in 1..4 :
             LET name == NamePart(pattern, arg.first_name, arg.last_name)
                 username == ret.val.username
             IN  /\ Len(username) = Len(name) + SuffixWidth(pattern)
                 /\ SubSeq(username, 1, Len(name)) = name
                 /\ \A i \in (Len(name) + 1)..Len(username) :
                       \E d \in 1..10 : username[i] = DigitChars[d]
\* an address was returned for a two-word last name with capitals
C21_Witness ==
    /\ EmailReturned
    /\ arg.first_name = <<"M", "a", "y">>
    /\ arg.last_name = <<"L", "e", " ", "M", "a", "y">>
    /\ ret.val.username = <<"m", "l", "e", " ", "m", "a", "y", "9", "9">>

(***************************************************************************)
(* C22: /start resets the conversation from any state: right after it the  *)
(* user has no user_data entry, none of the timeout jobs that were pending *)
(* is left, exactly one timeout job, the one of the URL step, is pending,  *)
(* and the conversation is in SHEERID_URL.                                 *)
(***************************************************************************)
C22_StartResets ==
    \A u \in Users :
        left[u].done =>
            /\ user_data[u] = NoSession
            /\ jobs[u] = [st \in TimeoutSteps |-> IF st = "URL" THEN 1 ELSE 0]
            /\ conv[u] = SHEERID_URL
\* /start has just run for a user who was being asked for the birth date,
\* had a session and had two timeout jobs pending
C22_Witness ==
    /\ left["u1"].done
    /\ left["u1"].from = BIRTH_DATE
    /\ left["u1"].had
    /\ Cardinality(left["u1"].pending) >= 2
    /\ "URL" \notin left["u1"].pending

(***************************************************************************)
(* C23: process_verification is reached only after the whole collection    *)
(* sequence: when it has run for a user, the inputs accepted since that    *)
(* user's last /start are the verification URL, the name, the email, the   *)
(* school type, a school selection and the birth date, in that order.      *)
(***************************************************************************)
CollectionSequence ==
    <<"URL", "NAME", "EMAIL", "SCHOOL_TYPE", "SCHOOL_SEARCH", "BIRTH_DATE">>
C23_FullSequenceFirst ==
    \A u \in Users :
        (ProcessVerificationRan(u) \/ invoked[u]) => path[u] = CollectionSequence
\* the verifier was called for one user while the other user has only given
\* the URL
C23_Witness ==
    /\ invoked["u1"]
    /\ ProcessVerificationRan("u1")
    /\ path["u1"] = CollectionSequence
    /\ path["u2"] = <<"URL">>
    /\ user_data["u2"].has

(***************************************************************************)
(* C24: the finalize call is issued only if the document PUT returned a    *)
(* 2xx status.  _upload_to_s3 performs exactly one PUT, without retry, and *)
(* never raises: it answers True exactly for a status in 200..299, and on  *)
(* False (any other status, or an exception of the PUT) the run ends in a  *)
(* failure result without the finalize call.                               *)
(***************************************************************************)
PutAnswers == { http[i].out : i \in HttpIdx(PUT) }
C24_FinalizeOnlyAfter2xx ==
    /\ Cardinality(HttpIdx(PUT)) <= 1
    /\ NCalls(PUT) = Cardinality(HttpIdx(PUT))
    /\ \A i \in HttpIdx(EP4) :
          \E j \in HttpIdx(PUT) : j < i /\ http[j].out \in {"200", "201", "299"}
    /\ (PutAnswers \cap {"200", "201", "299"} # {} /\ Finished) => Called(EP4)
    /\ (PutAnswers \ {"200", "201", "299"} # {}) =>
          /\ Finished
          /\ ~Called(EP4)
          /\ HttpIdx(EP4) = {}
          /\ ~escaped
          /\ result.returned /\ ~result.success
          /\ raised = [type |-> "Exception", msg |-> <<"S3 document upload failed">>]
\* the PUT was answered 300 and the run is over
C24_Witness ==
    /\ PutAnswers = {"300"}
    /\ Finished
    /\ ~result.success

(***************************************************************************)
(* C25: a rejected reply changes nothing but the timer: when               *)
(* get_sheerid_url, get_name, get_email or get_birth_date rejects the text *)
(* as invalid, the conversation state and the user's user_data entry stay  *)
(* as they were, and the timeout job of that same step is pending exactly  *)
(* once afterwards, the other jobs being untouched.                        *)
(***************************************************************************)
StepOf(c) == IF c = SHEERID_URL THEN "URL" ELSE c
Rejected(u) == sent[u] = <<"invalid">>
C25_RejectionKeepsState ==
    [][ \A u \in Users :
          (Rejected(u)' /\ <<sent[u], jobs[u]>>' # <<sent[u], jobs[u]>>) =>
              /\ conv[u] \in {SHEERID_URL, NAME, EMAIL, BIRTH_DATE}
              /\ conv'[u] = conv[u]
              /\ user_data'[u] = user_data[u]
              /\ jobs'[u] = [jobs[u] EXCEPT ![StepOf(conv[u])] = 1]
      ]_vars
\* a name was rejected while the user's session holds the verification id
\* and the job of the name step is pending once
C25_Witness ==
    /\ Rejected("u1")
    /\ conv["u1"] = NAME
    /\ user_data["u1"].f["verification_id"] = "hex24"
    /\ jobs["u1"]["NAME"] = 1

(***************************************************************************)
(* C26: every run of process_verification with complete session data      *)
(* reports exactly one outcome: exactly one message out of the success     *)
(* message and the failure messages is sent, exactly one verification log  *)
(* record is emitted and its success flag matches the message, whether the *)
(* verifier returns success, returns failure or raises; no exception       *)
(* leaves process_verification.                                            *)
(***************************************************************************)
FailureMessages == {"verification failed", "verification error"}
OutcomeMessages == {"verification succeeded"} \cup FailureMessages
C26_OneOutcomeReported ==
    \A u \in Users :
        invoked[u] =>
            /\ Cardinality({ i \in DOMAIN sent[u] : sent[u][i] \in OutcomeMessages }) = 1
            /\ Len(logs[u]) = 1
            /\ logs[u][1] = (\E i \in DOMAIN sent[u] : sent[u][i] = "verification succeeded")
            /\ \A i \in DOMAIN sent[u] : sent[u][i] # "exception logged"
\* the verifier was called and did not report success: a failure message
\* went out and the log record carries success = False
C26_Witness ==
    /\ invoked["u1"]
    /\ sent["u1"] = <<"sending", "verification error">>
    /\ logs["u1"] = <<FALSE>>

(***************************************************************************)
(* C27: a cache hit performs no remote call: once                          *)
(* search_university_in_sheerid has completed successfully for a query and *)
(* a type, every later call with the same type and a query equal up to     *)
(* letter case returns the list of that call without issuing a request,    *)
(* until clear_cache is called; the first call after clear_cache issues a  *)
(* request again.                                                          *)
(***************************************************************************)
LookupCalled == fn = "search_university_in_sheerid" /\ ret.done
C27_CacheHitNoRequest ==
    LookupCalled =>
        /\ got.expected => (got.get = "none" /\ ret.val = got.list)
        /\ ~got.expected => got.get # "none"
\* a call was answered from the cache with the non-empty list an earlier
\* call, made with the query in another letter case, had fetched
C27_Witness ==
    /\ LookupCalled
    /\ got.expected /\ got.get = "none"
    /\ known[<<Lower(arg.query), arg.type>>].query # arg.query
    /\ ret.val # <<>>

(***************************************************************************)
(* C28: at any time at most one timeout job is pending per user, and it    *)
(* belongs to the step the conversation is in: no timeout of an earlier    *)
(* step is pending.                                                        *)
(***************************************************************************)
PendingSteps(u) == { st \in TimeoutSteps : jobs[u][st] > 0 }
C28_OneJobOfCurrentStep ==
    \A u \in Users :
        /\ Cardinality(PendingSteps(u)) <= 1
        /\ \A st \in PendingSteps(u) : jobs[u][st] = 1 /\ st = StepOf(conv[u])

(***************************************************************************)
(* C29: no handler ever dereferences a missing session: under every        *)
(* interleaving of messages, button presses, /start and timeout firings,   *)
(* every access user_data[user_id][...] happens while user_id is a key of  *)
(* user_data, so no handler run ends in a KeyError.                        *)
(***************************************************************************)
KeyErrorRaised(u) == sent[u] = <<"KeyError logged">>
C29_NoMissingSession == \A u \in Users : ~KeyErrorRaised(u)

(***************************************************************************)
(* C30: when a conversation ends, that is when a handler returns           *)
(* ConversationHandler.END (after the verification attempt, after an empty *)
(* search result, after an invalid or unknown selection), no timeout job   *)
(* remains pending for that user.                                          *)
(***************************************************************************)
C30_NoJobAfterEnd ==
    [][ \A u \in Users :
          (conv[u] # END /\ conv'[u] = END) => PendingSteps(u)' = {} ]_vars

(***************************************************************************)
(* C31: every verification id the URL step of the front end stores is      *)
(* accepted by the workflow driver: the constructor of SheerIDVerifier     *)
(* does not raise ValueError on it, and it equals the id that              *)
(* parse_verification_id extracts from the same URL.                       *)
(***************************************************************************)
C31_StoredIdAccepted ==
    (fn = "get_sheerid_url" /\ ret.done /\ ret.val.stored.has) =>
        /\ ~ret.val.value_error
        /\ ret.val.parsed = ret.val.stored

(***************************************************************************)
(* C32: a selection button can only select an organization of the user's   *)
(* most recent search: when a selection is accepted right after a search   *)
(* displayed n results, the school_id and school_name stored are those of  *)
(* one of the n results of that search; an index beyond them is rejected   *)
(* and never resolved to an entry left over from an earlier search.        *)
(***************************************************************************)
Displayed(u, n) == sent[u] = <<ResultsMessage(n)>>
SelectionAccepted(u) == path'[u] = Append(path[u], "SCHOOL_SEARCH")
C32_SelectsFromLatestSearch ==
    [][ \A u \in Users, n \in 1..MaxResults :
          (Displayed(u, n) /\ SelectionAccepted(u)) =>
              \E i \in 0..(n - 1) :
                 /\ user_data'[u].f["school_id"] = user_data[u].uni[i].id
                 /\ user_data'[u].f["school_name"] = user_data[u].uni[i].name
      ]_vars

(***************************************************************************)
(* C33: session fields and timeout jobs are changed only by the handler of *)
(* the conversation's current state: a button press that arrives while the *)
(* conversation is in a state that does not handle it, or while no         *)
(* conversation is active, changes neither the user's user_data entry nor  *)
(* the user's pending timeout jobs.                                        *)
(***************************************************************************)
\* a step of button_callback run by the application-level handler for u: it
\* answers the press and neither moves the conversation nor counts as an
\* accepted input
PressOutsideState(u) ==
    /\ sent'[u] = <<"reply">>
    /\ conv'[u] = conv[u]
    /\ path'[u] = path[u]
    /\ ~left'[u].done
    /\ <<user_data[u], jobs[u], sent[u], left[u]>>' # <<user_data[u], jobs[u], sent[u], left[u]>>
C33_OnlyCurrentHandlerWrites ==
    [][ \A u \in Users :
          PressOutsideState(u) =>
              /\ user_data'[u] = user_data[u]
              /\ jobs'[u] = jobs[u] ]_vars

(***************************************************************************)
(* C34: a failed organization lookup leaves the cache unchanged: when      *)
(* search_university_in_sheerid gets a non-200 status, a body that is not  *)
(* a list or an exception, it returns the empty list and SHEERID_CACHE is  *)
(* the same before and after the call, so its key is still absent and a    *)
(* later call with that key issues a request again.                        *)
(***************************************************************************)
LookupFailed == LookupCalled /\ got.get \in {"status", "notlist", "exception"}
C34_FailureNotCached ==
    [][ LookupFailed' =>
          /\ ret'.val = <<>>
          /\ ~SHEERID_CACHE'[CacheKey(arg'.query, arg'.type)].done
          /\ known' = known => SHEERID_CACHE' = SHEERID_CACHE ]_vars
\* a lookup failed on a non-200 status while the list of another query type
\* is cached
C34_Witness ==
    /\ LookupFailed
    /\ got.get = "status"
    /\ ret.val = <<>>
    /\ \E k \in CacheKeys : SHEERID_CACHE[k].done /\ SHEERID_CACHE[k].val # <<>>
    /\ ~SHEERID_CACHE[CacheKey(arg.query, arg.type)].done

\* what the queries made so far delivered, in type order: the lists of those
\* that succeeded
RECURSIVE Delivered(_)
Delivered(q) ==
    IF q = <<>> THEN <<>>
    ELSE (IF Head(q).ok THEN Head(q).list ELSE <<>>) \o Delivered(Tail(q))

\* the records of list at the positions in keep, in the order of list
RECURSIVE Pick(_, _, _)
Pick(list, keep, i) ==
    IF i > Len(list) THEN <<>>
    ELSE (IF i \in keep THEN <<list[i]>> ELSE <<>>) \o Pick(list, keep, i + 1)

\* the first record of every id
FirstOfEachId(list) ==
    Pick(list, { i \in DOMAIN list : \A j \in 1..(i - 1) : list[j].id # list[i].id }, 1)

\* the first record of every id that is present and truthy
FirstOfEachTruthyId(list) ==
    Pick(list, { i \in DOMAIN list : /\ IdTruthy(list[i].id)
                                     /\ \A j \in 1..(i - 1) : list[j].id # list[i].id }, 1)

\* search_universities has returned
SearchReturned == fn = "search_universities" /\ ret.done

(***************************************************************************)
(* C35 (as stated): whichever of the four per-type queries fail, all four  *)
(* are made and search_universities returns the concatenation, in type     *)
(* order, of the lists of the queries that succeeded, reduced to the first *)
(* record of every id and truncated to 15.                                 *)
(***************************************************************************)
C35_AsStated ==
    SearchReturned =>
        /\ Len(queried) = Len(UnivTypes)
        /\ ret.val = Take(FirstOfEachId(Delivered(queried)), MaxChoices)

(***************************************************************************)
(* C35 (amended): whichever of the four per-type queries fail, all four    *)
(* are made and search_universities returns the concatenation, in type     *)
(* order, of the lists of the queries that succeeded, without the records  *)
(* whose id is missing or falsy (None, 0, ""), reduced to the first record *)
(* of every id and truncated to 15.                                        *)
(***************************************************************************)
C35_FailuresIsolated ==
    SearchReturned =>
        /\ Len(queried) = Len(UnivTypes)
        /\ ret.val = Take(FirstOfEachTruthyId(Delivered(queried)), MaxChoices)

\* the first and the third query failed, the second and the fourth delivered
\* lists that overlap, and the result holds more than the second list
C35_Witness ==
    /\ SearchReturned
    /\ ~queried[1].ok /\ queried[2].ok /\ ~queried[3].ok /\ queried[4].ok
    /\ \E i \in DOMAIN queried[2].list, j \in DOMAIN queried[4].list :
          queried[2].list[i].id = queried[4].list[j].id
    /\ Len(ret.val) > Len(queried[2].list)

(***************************************************************************)
(* C36: _make_request never waits after its final attempt: when the last   *)
(* permitted attempt of a call has failed (timeout, network error or 429)  *)
(* the failure is raised with no backoff sleep after that attempt.         *)
(***************************************************************************)
C36_NoWaitAfterFinalAttempt ==
    \A j \in DOMAIN sleeps : sleeps[j].after < Retries - 1

====
